---- MODULE Spec2Model ----
(***************************************************************************)
(* Network device inventory API: the Express handlers of the backend and   *)
(* the PostgreSQL queries they run.  Every request is a process whose      *)
(* steps are the datastore queries it awaits; the code between two awaits  *)
(* runs with the query that follows it.  Strings that the code inspects    *)
(* character by character (ip addresses, file names) are sequences of      *)
(* one-character strings; device and user ids are integers.                *)
(***************************************************************************)
EXTENDS Integers, Sequences, FiniteSets, TLC

VARIABLES devices, nextId, device_files, device_history, uploads, clock, reqs, nreq,
          okUploads

vars == <<devices, nextId, device_files, device_history, uploads, clock, reqs, nreq,
          okUploads>>

(* ------------------------------ bounds --------------------------------- *)

\* requests issued in one run
MaxReqs == 3
\* requests in flight at the same time
MaxProcs == 2
\* ticks of the wall clock (NOW(), Date.now())
MaxClock == 1

Procs == 1..MaxProcs

(* ------------------------- JavaScript values --------------------------- *)

\* a string-valued field: absent from the request body, JSON null, or a string
UndefS == "<undefined>"
NullS == "<null>"
\* a number-valued field: absent, null, or an integer
UndefN == -2
NullN == -1
\* a character-sequence field: absent, null, or a sequence of characters
UndefC == <<"<undefined>">>
NullC == <<"<null>">>

\* JavaScript truthiness: !v
FalsyS(v) == v \in {UndefS, NullS, ""}
FalsyN(v) == v \in {UndefN, NullN, 0}
FalsyC(v) == v \in {UndefC, NullC, <<>>}

\* JavaScript v || d
OrElseS(v, d) == IF FalsyS(v) THEN d ELSE v
OrElseN(v, d) == IF FalsyN(v) THEN d ELSE v

Digits == {"0", "1", "2", "3", "4", "5", "6", "7", "8", "9"}

\* the lengths of the maximal runs of digits between the dots of s, or
\* <<-1>> in place of a run that holds a character other than a digit
RECURSIVE DotGroups(_, _)
DotGroups(s, run) ==
  IF s = <<>> THEN <<run>>
  ELSE IF Head(s) = "." THEN <<run>> \o DotGroups(Tail(s), 0)
  ELSE IF Head(s) \in Digits /\ run >= 0 THEN DotGroups(Tail(s), run + 1)
  ELSE DotGroups(Tail(s), -1)

\* /^(?:[0-9]{1,3}\.){3}[0-9]{1,3}$/.test(s)
ipRegexTest(s) ==
  LET g == DotGroups(s, 0)
  IN  /\ Len(g) = 4
      /\ \A i \in 1..4 : g[i] >= 1 /\ g[i] <= 3

Whitespace == {" ", "\t"}

\* s.replace(/\s+/g, '_'): every maximal run of whitespace becomes one "_"
RECURSIVE safeName(_, _)
safeName(s, inRun) ==
  IF s = <<>> THEN <<>>
  ELSE IF Head(s) \in Whitespace
       THEN (IF inRun THEN <<>> ELSE <<"_">>) \o safeName(Tail(s), TRUE)
       ELSE <<Head(s)>> \o safeName(Tail(s), FALSE)

RECURSIVE Reverse(_)
Reverse(s) == IF s = <<>> THEN <<>> ELSE Reverse(Tail(s)) \o <<Head(s)>>

Max(S) == CHOOSE x \in S : \A y \in S : y <= x

(* ------------------------- reference data ------------------------------ *)

\* users: the directory the handlers read; rows are never changed by them
Users ==
  (1 :> [id |-> 1, name |-> "Admin User", role |-> "admin", active |-> TRUE]) @@
  (2 :> [id |-> 2, name |-> "Operator", role |-> "user", active |-> TRUE]) @@
  (3 :> [id |-> 3, name |-> "Former", role |-> "user", active |-> FALSE])

\* device_types and manufacturers, as seeded: ids 1..6 in the order of the seed
DeviceTypes ==
  (1 :> "Router") @@ (2 :> "Switch") @@ (3 :> "Firewall") @@
  (4 :> "Server") @@ (5 :> "Access Point") @@ (6 :> "Other")

Manufacturers ==
  (1 :> "Cisco") @@ (2 :> "Dell") @@ (3 :> "HP") @@
  (4 :> "Juniper") @@ (5 :> "Ubiquiti") @@ (6 :> "Aruba")

Statuses == {"active", "inactive", "maintenance"}

\* a devices row
DeviceRow(h, ip, type, typeId, manId, loc, st, notes) ==
  [hostname |-> h, ip_address |-> ip, device_type |-> type,
   device_type_id |-> typeId, manufacturer_id |-> manId, location |-> loc,
   status |-> st, notes |-> notes,
   assigned_user_id |-> NullN, assigned_at |-> NullN]

\* the sample devices of the setup script
SampleDevices ==
  (1 :> DeviceRow("router-main-01",
                  <<"1","9","2",".","1","6","8",".","1",".","1">>,
                  "Router", NullN, NullN, "Data Center - Rack A", "active",
                  "Primary gateway router for main network segment")) @@
  (2 :> DeviceRow("switch-floor2",
                  <<"1","9","2",".","1","6","8",".","1",".","1","0">>,
                  "Switch", NullN, NullN, "Building A - Floor 2", "active",
                  "24-port managed switch for office floor")) @@
  (3 :> DeviceRow("firewall-perimeter",
                  <<"2","0","3",".","0",".","1","1","3",".","1">>,
                  "Firewall", NullN, NullN, "DMZ Zone", "active",
                  "Perimeter firewall with WAF capabilities")) @@
  (4 :> DeviceRow("ap-conference-room",
                  <<"1","9","2",".","1","6","8",".","1",".","5","0">>,
                  "Access Point", NullN, NullN, "Conference Room B", "active",
                  "Wireless access point with 802.11ax support")) @@
  (5 :> DeviceRow("server-web-01",
                  <<"1","9","2",".","1","6","8",".","1",".","1","0","0">>,
                  "Server", NullN, NullN, "Data Center - Rack B", "active",
                  "Web server running Ubuntu 22.04 LTS"))

(* ------------------------------ rows ----------------------------------- *)

\* the details of a history entry; a key that is absent is Undef.  The code
\* stores JSON.stringify(details), which keeps these keys and values apart.
Details(assignee, from, to) ==
  [assigned_user_id |-> assignee, from |-> from, to |-> to]

EmptyDetails == Details(UndefN, UndefS, UndefS)

HistoryRow(device_id, action, user_id, details) ==
  [device_id |-> device_id, action |-> action, user_id |-> user_id,
   details |-> details]

FileRow(device_id, filename, storage_path, version, content_type, file_size) ==
  [device_id |-> device_id, filename |-> filename,
   storage_path |-> storage_path, version |-> version,
   content_type |-> content_type, file_size |-> file_size]

\* a request body of POST /devices and PUT /devices/:id
Body(h, ip, type, typeId, manId, loc, st, notes) ==
  [hostname |-> h, ip_address |-> ip, device_type |-> type,
   device_type_id |-> typeId, manufacturer_id |-> manId, location |-> loc,
   status |-> st, notes |-> notes]

NoBody == Body(UndefS, UndefC, UndefS, UndefN, UndefN, UndefS, UndefS, UndefS)

\* an uploaded file as the client sends it
UploadedFile(name, mimetype, size) ==
  [originalname |-> name, mimetype |-> mimetype, size |-> size]

(* ---------------------------- requests --------------------------------- *)

\* A request: its inputs (op, id, principal, userId, body, file, filters), the
\* handler's position and local variables (pc, existing, updated, version,
\* path), its response (res, data), and four history variables: dev0, h0
\* and f0, the row of device id and the numbers of its history rows and of
\* its file rows when the request arrived, and wrote, whether the request
\* has changed a stored row.
IdleReq ==
  [op |-> "idle", pc |-> "idle", id |-> 0, principal |-> NullN,
   userId |-> UndefN, body |-> NoBody, file |-> <<>>,
   filters |-> [search |-> UndefC, status |-> UndefS],
   existing |-> <<>>, updated |-> <<>>, version |-> 0, path |-> <<>>,
   res |-> 0, data |-> <<>>, dev0 |-> <<>>, h0 |-> 0, f0 |-> 0,
   wrote |-> FALSE]

HistoryOf(hist, id) == SelectSeq(hist, LAMBDA h : h.device_id = id)

FilesOf(fs, id) == SelectSeq(fs, LAMBDA f : f.device_id = id)

NewReq(op, id, principal) ==
  [IdleReq EXCEPT !.op = op, !.pc = "start", !.id = id,
                  !.principal = principal,
                  !.dev0 = IF id \in DOMAIN devices THEN <<devices[id]>> ELSE <<>>,
                  !.h0 = Len(HistoryOf(device_history, id)),
                  !.f0 = Len(FilesOf(device_files, id))]

\* res.status(code).json(...) and return
Respond(r, code) == [r EXCEPT !.pc = "done", !.res = code]

RespondData(r, code, data) == [r EXCEPT !.pc = "done", !.res = code, !.data = data]

\* history variable okUploads: the number of uploads to device id that were
\* answered 201
OkCount(id) == IF id \in DOMAIN okUploads THEN okUploads[id] ELSE 0

InFlight == {q \in Procs : reqs[q].op # "idle"}

\* a request can arrive while fewer than K requests are in flight; it takes
\* the first free slot p (the slots are interchangeable)
CanStart(K, p) ==
  /\ reqs[p].op = "idle"
  /\ \A q \in Procs : q < p => reqs[q].op # "idle"
  /\ nreq < MaxReqs
  /\ Cardinality(InFlight) < K

At(p, op, pc) == reqs[p].op = op /\ reqs[p].pc = pc

(* ----------------------------- queries --------------------------------- *)

\* the device row with this id: <<row>>, or <<>> for null
getDeviceById(devs, id) ==
  IF id \in DOMAIN devs THEN <<devs[id]>> ELSE <<>>

getUserById(id) ==
  IF id \in DOMAIN Users THEN <<Users[id]>> ELSE <<>>

\* ORDER BY id ASC
getUsers == [i \in 1..Cardinality(DOMAIN Users) |-> Users[i]]

\* mutant: the guard lets every request through
requireAuth_Open(principal) == TRUE

requireAuth(principal) == principal # NullN

\* mutant: the handler checks that the user exists, not that it is active
AssignableUser_IgnoreActive(user) == user # <<>>

\* the target of an assignment: !(!user || !user.active)
AssignableUser(user) == user # <<>> /\ user[1].active

\* req.session.user?.id || null
SessionUserId(principal) == OrElseN(principal, NullN)

\* mutant: the update sets the assignee and leaves assigned_at as it was
assignDeviceToUser_NoTimestamp(devs, deviceId, userId, now) ==
  IF deviceId \in DOMAIN devs
  THEN [devs EXCEPT ![deviceId].assigned_user_id = userId]
  ELSE devs

\* mutant: the update applies to a device that is not assigned only
assignDeviceToUser_OnlyIfAvailable(devs, deviceId, userId, now) ==
  IF deviceId \in DOMAIN devs /\ devs[deviceId].assigned_user_id = NullN
  THEN [devs EXCEPT ![deviceId].assigned_user_id = userId,
                    ![deviceId].assigned_at = now]
  ELSE devs

\* UPDATE devices SET assigned_user_id = $1, assigned_at = NOW() WHERE id = $2
assignDeviceToUser(devs, deviceId, userId, now) ==
  IF deviceId \in DOMAIN devs
  THEN [devs EXCEPT ![deviceId].assigned_user_id = userId,
                    ![deviceId].assigned_at = now]
  ELSE devs

\* mutant: the update clears the assignee and leaves assigned_at as it was
unassignDevice_KeepTimestamp(devs, deviceId) ==
  IF deviceId \in DOMAIN devs
  THEN [devs EXCEPT ![deviceId].assigned_user_id = NullN]
  ELSE devs

\* mutant: the check-in also sets the status back to active
unassignDevice_ResetsStatus(devs, deviceId) ==
  IF deviceId \in DOMAIN devs
  THEN [devs EXCEPT ![deviceId].assigned_user_id = NullN,
                    ![deviceId].assigned_at = NullN,
                    ![deviceId].status = "active"]
  ELSE devs

\* UPDATE devices SET assigned_user_id = NULL, assigned_at = NULL WHERE id = $1
unassignDevice(devs, deviceId) ==
  IF deviceId \in DOMAIN devs
  THEN [devs EXCEPT ![deviceId].assigned_user_id = NullN,
                    ![deviceId].assigned_at = NullN]
  ELSE devs

\* device_history.device_id refers to an existing device
HistoryInsertOk(devs, row) == row.device_id \in DOMAIN devs

\* mutant: the insert of an entry replaces the entries of its device
addHistoryEntry_Replace(hist, row) ==
  Append(SelectSeq(hist, LAMBDA h : h.device_id # row.device_id), row)

\* INSERT INTO device_history (device_id, action, user_id, details)
addHistoryEntry(hist, row) == Append(hist, row)

\* SELECT ... FROM device_history WHERE device_id = $1, newest first
getDeviceHistory(hist, deviceId) == Reverse(HistoryOf(hist, deviceId))

\* mutant: the reference to devices does not cascade
FilesAfterDelete_NoCascade(fs, id) == fs

\* the rows of device_files that survive the deletion of device id
\* (device_id REFERENCES devices(id) ON DELETE CASCADE)
FilesAfterDelete(fs, id) == SelectSeq(fs, LAMBDA f : f.device_id # id)

\* the rows of device_history that survive the deletion of device id
HistoryAfterDelete(hist, id) == SelectSeq(hist, LAMBDA h : h.device_id # id)

\* DELETE FROM devices WHERE id = $1
deleteDevice(devs, id) == [d \in DOMAIN devs \ {id} |-> devs[d]]

\* the name of a device type, or null
getDeviceTypeName(id) ==
  IF FalsyN(id) THEN NullS
  ELSE IF id \in DOMAIN DeviceTypes THEN DeviceTypes[id] ELSE NullS

\* the constraints of table devices: NOT NULL columns, VARCHAR(15), and the
\* references to device_types, manufacturers and users
DeviceRowOk(row) ==
  /\ row.hostname # NullS
  /\ row.ip_address # NullC
  /\ Len(row.ip_address) <= 15
  /\ row.device_type # NullS
  /\ row.device_type_id = NullN \/ row.device_type_id \in DOMAIN DeviceTypes
  /\ row.manufacturer_id = NullN \/ row.manufacturer_id \in DOMAIN Manufacturers
  /\ row.assigned_user_id = NullN \/ row.assigned_user_id \in DOMAIN Users

\* the checks of POST /devices before createDevice
CreateBodyValid(body) ==
  /\ ~(FalsyS(body.hostname) \/ FalsyC(body.ip_address)
         \/ (FalsyS(body.device_type) /\ FalsyN(body.device_type_id)))
  /\ ipRegexTest(body.ip_address)
  /\ FalsyN(body.device_type_id) \/ body.device_type_id \in DOMAIN DeviceTypes
  /\ FalsyN(body.manufacturer_id) \/ body.manufacturer_id \in DOMAIN Manufacturers
  /\ FalsyS(body.status) \/ body.status \in Statuses

\* createDevice without the default of status
createDevice_NoDefault(data) ==
  LET resolvedType ==
        IF FalsyS(data.device_type) /\ ~FalsyN(data.device_type_id)
        THEN getDeviceTypeName(data.device_type_id)
        ELSE data.device_type
  IN  DeviceRow(data.hostname, data.ip_address, OrElseS(resolvedType, "Other"),
                OrElseN(data.device_type_id, NullN),
                OrElseN(data.manufacturer_id, NullN),
                OrElseS(data.location, NullS),
                OrElseS(data.status, NullS),
                OrElseS(data.notes, NullS))

\* the row INSERT INTO devices stores for the data the handler passes
createDevice(data) ==
  LET resolvedType ==
        IF FalsyS(data.device_type) /\ ~FalsyN(data.device_type_id)
        THEN getDeviceTypeName(data.device_type_id)
        ELSE data.device_type
  IN  DeviceRow(data.hostname, data.ip_address, OrElseS(resolvedType, "Other"),
                OrElseN(data.device_type_id, NullN),
                OrElseN(data.manufacturer_id, NullN),
                OrElseS(data.location, NullS),
                OrElseS(data.status, "active"),
                OrElseS(data.notes, NullS))

\* the checks of PUT /devices/:id before the device is read
UpdateBodyValid(body) ==
  /\ FalsyC(body.ip_address) \/ ipRegexTest(body.ip_address)
  /\ FalsyN(body.device_type_id) \/ body.device_type_id \in DOMAIN DeviceTypes
  /\ FalsyN(body.manufacturer_id) \/ body.manufacturer_id \in DOMAIN Manufacturers
  /\ FalsyS(body.status) \/ body.status \in Statuses

\* the data PUT /devices/:id passes to updateDevice: the eight fields of the
\* body; assigned_user_id and assigned_at are not among them
UpdateData(body) ==
  [hostname |-> body.hostname, ip_address |-> body.ip_address,
   device_type |-> body.device_type, device_type_id |-> body.device_type_id,
   manufacturer_id |-> body.manufacturer_id, location |-> body.location,
   status |-> body.status, notes |-> body.notes,
   assigned_user_id |-> UndefN, assigned_at |-> UndefN]

\* mutant: every column is set from the data, an absent field as null
updateDeviceRow_Overwrite(row, data) ==
  [hostname |-> data.hostname, ip_address |-> data.ip_address,
   device_type |-> row.device_type,
   device_type_id |-> OrElseN(data.device_type_id, NullN),
   manufacturer_id |-> OrElseN(data.manufacturer_id, NullN),
   location |-> OrElseS(data.location, NullS),
   status |-> OrElseS(data.status, "active"),
   notes |-> OrElseS(data.notes, NullS),
   assigned_user_id |-> row.assigned_user_id, assigned_at |-> row.assigned_at]

\* the row after SET: every field of data that is not undefined replaces
\* the column of the same name
updateDeviceRow(row, data) ==
  [hostname |-> IF data.hostname # UndefS THEN data.hostname ELSE row.hostname,
   ip_address |-> IF data.ip_address # UndefC THEN data.ip_address
                  ELSE row.ip_address,
   device_type |-> IF data.device_type # UndefS THEN data.device_type
                   ELSE row.device_type,
   device_type_id |-> IF data.device_type_id # UndefN THEN data.device_type_id
                      ELSE row.device_type_id,
   manufacturer_id |-> IF data.manufacturer_id # UndefN THEN data.manufacturer_id
                       ELSE row.manufacturer_id,
   location |-> IF data.location # UndefS THEN data.location ELSE row.location,
   status |-> IF data.status # UndefS THEN data.status ELSE row.status,
   notes |-> IF data.notes # UndefS THEN data.notes ELSE row.notes,
   assigned_user_id |-> IF data.assigned_user_id # UndefN
                        THEN data.assigned_user_id ELSE row.assigned_user_id,
   assigned_at |-> IF data.assigned_at # UndefN THEN data.assigned_at
                   ELSE row.assigned_at]

\* UPDATE devices SET ... WHERE id = $n throws: a row matches and the new
\* row breaks a constraint
updateDeviceThrows(devs, id, data) ==
  /\ id \in DOMAIN devs
  /\ ~DeviceRowOk(updateDeviceRow(devs[id], data))

\* the table after updateDevice (unchanged when it throws or no row matches)
updateDevice(devs, id, data) ==
  IF id \in DOMAIN devs /\ ~updateDeviceThrows(devs, id, data)
  THEN [devs EXCEPT ![id] = updateDeviceRow(devs[id], data)]
  ELSE devs

\* mutant: every update that returns a row is recorded as a status change
StatusChanged_Always(existing, updatedDevice) == updatedDevice # <<>>

\* the status change PUT /devices/:id records, given the row it read before
\* the update and the row the update returned
StatusChanged(existing, updatedDevice) ==
  updatedDevice # <<>> /\ existing[1].status # updatedDevice[1].status

\* limits: { fileSize: 5 * 1024 * 1024 }
FileSizeLimit == 5 * 1024 * 1024

\* the name multer stores an upload under:
\* `device-${deviceId}-${Date.now()}-${safeName}`
StoragePath(deviceId, now, originalname) ==
  <<deviceId, now, safeName(originalname, FALSE)>>

\* getDeviceFiles: the rows of the device, ORDER BY version DESC
getDeviceFiles(fs, deviceId) == Reverse(FilesOf(fs, deviceId))

\* mutant: the bytes are not on disk when the handler runs
diskStorage_Deferred(ups, path) == ups

\* multer.diskStorage: the bytes of the file part are written to the uploads
\* directory under the storage path
diskStorage(ups, path) == ups \cup {path}

\* SELECT COALESCE(MAX(version), 0) + 1 FROM device_files WHERE device_id = $1
getNextFileVersion(fs, deviceId) ==
  LET mine == FilesOf(fs, deviceId)
  IN  IF mine = <<>> THEN 1
      ELSE Max({mine[i].version : i \in 1..Len(mine)}) + 1

\* mutant: the table has no unique constraint
device_version_unique_Missing(fs, row) == TRUE

\* CONSTRAINT device_version_unique UNIQUE (device_id, version)
device_version_unique(fs, row) ==
  \A i \in 1..Len(fs) :
    ~(fs[i].device_id = row.device_id /\ fs[i].version = row.version)

\* mutant: device_files.device_id does not reference devices
FileInsertOk_NoForeignKey(devs, fs, row) == device_version_unique(fs, row)

\* device_id INT NOT NULL REFERENCES devices(id)
FileInsertOk(devs, fs, row) ==
  /\ row.device_id \in DOMAIN devs
  /\ device_version_unique(fs, row)

\* the row addDeviceFile inserts
addDeviceFile(data, version) ==
  FileRow(data.device_id, data.filename, data.storage_path, version,
          OrElseS(data.content_type, NullS), OrElseN(data.file_size, NullN))

(* --------------------------- list and export --------------------------- *)

\* the filters object of GET /devices and GET /devices/export:
\* req.query.search || undefined, req.query.status || undefined
Filters(search, status) ==
  [search |-> IF FalsyC(search) THEN UndefC ELSE search,
   status |-> IF FalsyS(status) THEN UndefS ELSE status]

NoFilters == Filters(UndefC, UndefS)

\* the ids of a set in ascending order
RECURSIVE SortedIds(_)
SortedIds(S) ==
  IF S = {} THEN <<>>
  ELSE LET m == CHOOSE x \in S : \A y \in S : x <= y
       IN  <<m>> \o SortedIds(S \ {m})

\* a row of SELECT d.*, u.name, dt.name, m.name FROM devices d LEFT JOIN ...
JoinedRow(devs, id) ==
  LET d == devs[id]
  IN  [id |-> id, hostname |-> d.hostname, ip_address |-> d.ip_address,
       device_type |-> d.device_type, device_type_id |-> d.device_type_id,
       manufacturer_id |-> d.manufacturer_id, location |-> d.location,
       status |-> d.status, notes |-> d.notes,
       assigned_user_id |-> d.assigned_user_id, assigned_at |-> d.assigned_at,
       assigned_to_name |-> IF d.assigned_user_id \in DOMAIN Users
                            THEN Users[d.assigned_user_id].name ELSE NullS,
       device_type_name |-> IF d.device_type_id \in DOMAIN DeviceTypes
                            THEN DeviceTypes[d.device_type_id] ELSE NullS,
       manufacturer_name |-> IF d.manufacturer_id \in DOMAIN Manufacturers
                             THEN Manufacturers[d.manufacturer_id] ELSE NullS]

\* getDevices: every row of devices, ORDER BY d.id ASC.  The function is
\* declared without parameters: the filters object the handlers pass is
\* not read.
getDevices(devs, filters) ==
  LET ids == SortedIds(DOMAIN devs)
  IN  [i \in 1..Len(ids) |-> JoinedRow(devs, ids[i])]

\* Text: a string as the sequence of its pieces.  A string the handlers do
\* not look into is one piece, which holds no double quote unless it is the
\* one-character string of a double quote.
ToText(s) ==
  IF s = UndefS THEN UndefC
  ELSE IF s = NullS THEN NullC
  ELSE IF s = "" THEN <<>>
  ELSE <<s>>

Quote == "\""

\* String(val)
StringOf(val) ==
  IF val = NullC THEN <<"n", "u", "l", "l">>
  ELSE IF val = UndefC THEN <<"u", "n", "d", "e", "f", "i", "n", "e", "d">>
  ELSE val

\* text.replace(/"/g, '""')
RECURSIVE DoubleQuotes(_)
DoubleQuotes(text) ==
  IF text = <<>> THEN <<>>
  ELSE (IF Head(text) = Quote THEN <<Quote, Quote>> ELSE <<Head(text)>>)
         \o DoubleQuotes(Tail(text))

\* escape without the default parameter and without ?? ''
escape_Raw(val) == <<Quote>> \o DoubleQuotes(StringOf(val)) \o <<Quote>>

\* const escape = (val = '') => `"${String(val ?? '').replace(/"/g, '""')}"`
escape(val) ==
  LET v == IF val = UndefC THEN <<>> ELSE val
      w == IF v \in {NullC, UndefC} THEN <<>> ELSE v
  IN  <<Quote>> \o DoubleQuotes(StringOf(w)) \o <<Quote>>

\* headers.join(',')
CsvHeaders ==
  <<"hostname", "ip_address", "device_type", "manufacturer", "status",
    "assigned_to", "location">>

\* mutant: the cells of the optional columns are built from the column as it is
CsvRow_NoFallback(d) ==
  << escape(ToText(d.hostname)),
     escape(d.ip_address),
     escape(ToText(OrElseS(d.device_type_name, d.device_type))),
     escape_Raw(ToText(d.manufacturer_name)),
     escape(ToText(d.status)),
     escape_Raw(ToText(d.assigned_to_name)),
     escape_Raw(ToText(d.location)) >>

\* a line of the export, as the sequence of its cells (joined with ',')
CsvRow(d) ==
  << escape(ToText(d.hostname)),
     escape(d.ip_address),
     escape(ToText(OrElseS(d.device_type_name, d.device_type))),
     escape(ToText(OrElseS(d.manufacturer_name, ""))),
     escape(ToText(d.status)),
     escape(ToText(OrElseS(d.assigned_to_name, ""))),
     escape(ToText(OrElseS(d.location, ""))) >>

\* the body of the export: the header line, then a line per device
\* (joined with '\n')
Csv(rows) == <<CsvHeaders>> \o [i \in 1..Len(rows) |-> CsvRow(rows[i])]

(* ------------------------------ inputs --------------------------------- *)

\* device ids a request names: a sample device, and the first device created
\* after the samples (no device has this id until one is created)
DeviceIdInputs == {1, 6}

\* the session of a request: none (anonymous), or a logged-in user
Principals == {NullN, 1}

\* userId of an assign request: absent, two active users, an inactive one,
\* one that does not exist
UserIdInputs == {UndefN, 1, 2, 3, 9}

Ip10005 == <<"1", "0", ".", "0", ".", "0", ".", "5">>

\* bodies of POST /devices
CreateBodies ==
  { [NoBody EXCEPT !.hostname = "sw-01", !.ip_address = Ip10005,
                   !.device_type = "Switch"],
    [NoBody EXCEPT !.hostname = "sw-01", !.ip_address = <<"1", "0", ".", "5">>,
                   !.device_type = "Switch"] }

\* bodies of PUT /devices/:id
UpdateBodies ==
  { [NoBody EXCEPT !.status = "maintenance"],
    [NoBody EXCEPT !.status = "active"],
    [NoBody EXCEPT !.status = "retired"],
    [NoBody EXCEPT !.location = "Lab", !.hostname = NullS],
    [NoBody EXCEPT !.location = "Lab"] }

\* the file part of POST /devices/:id/files: none, a small file, a file
\* over the size limit
UploadInputs ==
  { <<>>,
    <<UploadedFile(<<"a", " ", "b">>, "text/plain", 100)>>,
    <<UploadedFile(<<"a", "_", "b">>, "text/plain", FileSizeLimit + 1)>> }

\* req.query.search and req.query.status of GET /devices and the export:
\* absent, empty, or a term / a status
SearchInputs == {UndefC, <<>>, <<"S", "W">>}

StatusFilterInputs == {UndefS, "maintenance"}

\* bodies of POST /devices that give the list a device with no location,
\* one with a manufacturer, and one whose hostname is a double quote
ListCreateBodies ==
  { [NoBody EXCEPT !.hostname = "sw-01", !.ip_address = Ip10005,
                   !.device_type = "Switch"],
    [NoBody EXCEPT !.hostname = Quote, !.ip_address = Ip10005,
                   !.device_type_id = 2, !.manufacturer_id = 1,
                   !.location = "Lab"] }

\* bodies of POST /devices for the checks of the registry: a body that
\* passes; the hostname of a sample device; a status outside the enum; a
\* device type id that no lookup row has; device type id 0; a malformed ip
\* address; no hostname; no ip address; neither device_type nor
\* device_type_id; device_type_id alone
RegistryCreateBodies ==
  { [NoBody EXCEPT !.hostname = "sw-01", !.ip_address = Ip10005,
                   !.device_type = "Switch"],
    [NoBody EXCEPT !.hostname = "router-main-01", !.ip_address = Ip10005,
                   !.device_type = "Router"],
    [NoBody EXCEPT !.hostname = "sw-01", !.ip_address = Ip10005,
                   !.device_type = "Switch", !.status = "retired"],
    [NoBody EXCEPT !.hostname = "sw-01", !.ip_address = Ip10005,
                   !.device_type = "Switch", !.device_type_id = 9],
    [NoBody EXCEPT !.hostname = "sw-01", !.ip_address = Ip10005,
                   !.device_type = "Switch", !.device_type_id = 0],
    [NoBody EXCEPT !.hostname = "sw-01", !.ip_address = <<"1", "0", ".", "5">>,
                   !.device_type = "Switch"],
    [NoBody EXCEPT !.ip_address = Ip10005, !.device_type = "Switch"],
    [NoBody EXCEPT !.hostname = "sw-01", !.device_type = "Switch"],
    [NoBody EXCEPT !.hostname = "sw-01", !.ip_address = Ip10005],
    [NoBody EXCEPT !.hostname = "sw-01", !.ip_address = Ip10005,
                   !.device_type_id = 2] }

\* bodies of PUT /devices/:id for the checks of the registry: no field; one
\* field of each kind, with a value that is well-formed, empty, null,
\* malformed, or unknown to the lookups
RegistryUpdateBodies ==
  { NoBody,
    [NoBody EXCEPT !.location = "Lab"],
    [NoBody EXCEPT !.status = "maintenance"],
    [NoBody EXCEPT !.status = "retired"],
    [NoBody EXCEPT !.status = ""],
    [NoBody EXCEPT !.status = NullS],
    [NoBody EXCEPT !.hostname = ""],
    [NoBody EXCEPT !.hostname = "switch-floor2"],
    [NoBody EXCEPT !.ip_address = <<>>],
    [NoBody EXCEPT !.ip_address = <<"1", "0", ".", "5">>],
    [NoBody EXCEPT !.device_type_id = 2],
    [NoBody EXCEPT !.device_type_id = 9],
    [NoBody EXCEPT !.manufacturer_id = 9] }

(* --------------------------- initial state ----------------------------- *)

Init ==
  /\ devices = SampleDevices
  /\ nextId = 6
  /\ device_files = <<>>
  /\ device_history = <<>>
  /\ uploads = {}
  /\ clock = 0
  /\ reqs = [p \in Procs |-> IdleReq]
  /\ nreq = 0
  /\ okUploads = <<>>

(* ----------------------- POST /devices/:id/assign ---------------------- *)

AssignStart(K, p, id, principal, userId) ==
  /\ CanStart(K, p)
  /\ LET r == [NewReq("assign", id, principal) EXCEPT !.userId = userId]
     IN  reqs' = [reqs EXCEPT ![p] =
           IF ~requireAuth(principal) THEN Respond(r, 401)
           ELSE IF FalsyN(userId) THEN Respond(r, 400)
           ELSE IF getDeviceById(devices, id) = <<>> THEN Respond(r, 404)
           ELSE [r EXCEPT !.pc = "getUserById"]]
  /\ nreq' = nreq + 1
  /\ UNCHANGED <<devices, nextId, device_files, device_history, uploads, okUploads, clock>>

AssignGetUser(p) ==
  /\ At(p, "assign", "getUserById")
  /\ LET r == reqs[p]
         user == getUserById(r.userId)
     IN  reqs' = [reqs EXCEPT ![p] =
           IF ~AssignableUser(user) THEN Respond(r, 400)
           ELSE [r EXCEPT !.pc = "assignDeviceToUser"]]
  /\ UNCHANGED <<devices, nextId, device_files, device_history, uploads, okUploads, clock, nreq>>

AssignUpdate(p) ==
  /\ At(p, "assign", "assignDeviceToUser")
  /\ devices' = assignDeviceToUser(devices, reqs[p].id, reqs[p].userId, clock)
  /\ reqs' = [reqs EXCEPT ![p].pc = "getDeviceById",
                          ![p].wrote = (reqs[p].id \in DOMAIN devices)]
  /\ UNCHANGED <<nextId, device_files, device_history, uploads, okUploads, clock, nreq>>

AssignReread(p) ==
  /\ At(p, "assign", "getDeviceById")
  /\ reqs' = [reqs EXCEPT ![p].pc = "addHistoryEntry",
                          ![p].updated = getDeviceById(devices, reqs[p].id)]
  /\ UNCHANGED <<devices, nextId, device_files, device_history, uploads, okUploads, clock, nreq>>

AssignHistory(p) ==
  /\ At(p, "assign", "addHistoryEntry")
  /\ LET r == reqs[p]
         row == HistoryRow(r.id, "assigned", SessionUserId(r.principal),
                           Details(r.userId, UndefS, UndefS))
     IN  IF HistoryInsertOk(devices, row)
         THEN /\ device_history' = addHistoryEntry(device_history, row)
              /\ reqs' = [reqs EXCEPT ![p] = [Respond(r, 200) EXCEPT !.wrote = TRUE]]
         ELSE /\ device_history' = device_history
              /\ reqs' = [reqs EXCEPT ![p] = Respond(r, 500)]
  /\ UNCHANGED <<devices, nextId, device_files, uploads, okUploads, clock, nreq>>

(* ---------------------- POST /devices/:id/checkin ---------------------- *)

CheckinStart(K, p, id, principal) ==
  /\ CanStart(K, p)
  /\ LET r == NewReq("checkin", id, principal)
     IN  reqs' = [reqs EXCEPT ![p] =
           IF ~requireAuth(principal) THEN Respond(r, 401)
           ELSE IF getDeviceById(devices, id) = <<>> THEN Respond(r, 404)
           ELSE [r EXCEPT !.pc = "unassignDevice"]]
  /\ nreq' = nreq + 1
  /\ UNCHANGED <<devices, nextId, device_files, device_history, uploads, okUploads, clock>>

CheckinUpdate(p) ==
  /\ At(p, "checkin", "unassignDevice")
  /\ devices' = unassignDevice(devices, reqs[p].id)
  /\ reqs' = [reqs EXCEPT ![p].pc = "getDeviceById",
                          ![p].wrote = (reqs[p].id \in DOMAIN devices)]
  /\ UNCHANGED <<nextId, device_files, device_history, uploads, okUploads, clock, nreq>>

CheckinReread(p) ==
  /\ At(p, "checkin", "getDeviceById")
  /\ reqs' = [reqs EXCEPT ![p].pc = "addHistoryEntry",
                          ![p].updated = getDeviceById(devices, reqs[p].id)]
  /\ UNCHANGED <<devices, nextId, device_files, device_history, uploads, okUploads, clock, nreq>>

CheckinHistory(p) ==
  /\ At(p, "checkin", "addHistoryEntry")
  /\ LET r == reqs[p]
         row == HistoryRow(r.id, "checked_in", SessionUserId(r.principal),
                           EmptyDetails)
     IN  IF HistoryInsertOk(devices, row)
         THEN /\ device_history' = addHistoryEntry(device_history, row)
              /\ reqs' = [reqs EXCEPT ![p] = [Respond(r, 200) EXCEPT !.wrote = TRUE]]
         ELSE /\ device_history' = device_history
              /\ reqs' = [reqs EXCEPT ![p] = Respond(r, 500)]
  /\ UNCHANGED <<devices, nextId, device_files, uploads, okUploads, clock, nreq>>

(* ------------------------------ GET /users ----------------------------- *)

ListUsers(K, p, principal) ==
  /\ CanStart(K, p)
  /\ LET r == NewReq("listUsers", 0, principal)
     IN  reqs' = [reqs EXCEPT ![p] =
           IF ~requireAuth(principal) THEN Respond(r, 401)
           ELSE RespondData(r, 200, getUsers)]
  /\ nreq' = nreq + 1
  /\ UNCHANGED <<devices, nextId, device_files, device_history, uploads, okUploads, clock>>

(* ----------------------- GET /devices/:id/history ---------------------- *)

ListHistoryStart(K, p, id, principal) ==
  /\ CanStart(K, p)
  /\ LET r == NewReq("listHistory", id, principal)
     IN  reqs' = [reqs EXCEPT ![p] =
           IF getDeviceById(devices, id) = <<>> THEN Respond(r, 404)
           ELSE [r EXCEPT !.pc = "getDeviceHistory"]]
  /\ nreq' = nreq + 1
  /\ UNCHANGED <<devices, nextId, device_files, device_history, uploads, okUploads, clock>>

ListHistoryQuery(p) ==
  /\ At(p, "listHistory", "getDeviceHistory")
  /\ reqs' = [reqs EXCEPT ![p] =
       RespondData(reqs[p], 200, getDeviceHistory(device_history, reqs[p].id))]
  /\ UNCHANGED <<devices, nextId, device_files, device_history, uploads, okUploads, clock, nreq>>

(* --------------------------- GET /devices/:id -------------------------- *)

\* mutant: a missing device is answered 200 with no data
GetById_NeverMissing(K, p, id) ==
  /\ CanStart(K, p)
  /\ reqs' = [reqs EXCEPT ![p] =
       RespondData(NewReq("getById", id, NullN), 200, getDeviceById(devices, id))]
  /\ nreq' = nreq + 1
  /\ UNCHANGED <<devices, nextId, device_files, device_history, uploads, okUploads, clock>>

GetById(K, p, id) ==
  /\ CanStart(K, p)
  /\ LET r == NewReq("getById", id, NullN)
         device == getDeviceById(devices, id)
     IN  reqs' = [reqs EXCEPT ![p] =
           IF device = <<>> THEN Respond(r, 404)
           ELSE RespondData(r, 200, device)]
  /\ nreq' = nreq + 1
  /\ UNCHANGED <<devices, nextId, device_files, device_history, uploads, okUploads, clock>>

(* ------------------- GET /devices, GET /devices/export ----------------- *)

ListDevices(K, p, search, status) ==
  /\ CanStart(K, p)
  /\ LET filters == Filters(search, status)
         r == [NewReq("list", 0, NullN) EXCEPT !.filters = filters]
     IN  reqs' = [reqs EXCEPT ![p] = RespondData(r, 200, getDevices(devices, filters))]
  /\ nreq' = nreq + 1
  /\ UNCHANGED <<devices, nextId, device_files, device_history, uploads, okUploads, clock>>

ExportCsv(K, p, search, status) ==
  /\ CanStart(K, p)
  /\ LET filters == Filters(search, status)
         r == [NewReq("export", 0, NullN) EXCEPT !.filters = filters]
     IN  reqs' = [reqs EXCEPT ![p] =
           RespondData(r, 200, Csv(getDevices(devices, filters)))]
  /\ nreq' = nreq + 1
  /\ UNCHANGED <<devices, nextId, device_files, device_history, uploads, okUploads, clock>>

(* -------------------------- DELETE /devices/:id ------------------------ *)

Delete(K, p, id) ==
  /\ CanStart(K, p)
  /\ LET r == NewReq("delete", id, NullN)
         deletedDevice == getDeviceById(devices, id)
     IN  /\ devices' = deleteDevice(devices, id)
         /\ device_files' = FilesAfterDelete(device_files, id)
         /\ device_history' = HistoryAfterDelete(device_history, id)
         /\ reqs' = [reqs EXCEPT ![p] =
              IF deletedDevice = <<>> THEN Respond(r, 404)
              ELSE [RespondData(r, 200, deletedDevice) EXCEPT !.wrote = TRUE]]
  /\ nreq' = nreq + 1
  /\ UNCHANGED <<nextId, uploads, okUploads, clock>>

(* ----------------------------- POST /devices --------------------------- *)

Create(K, p, body) ==
  /\ CanStart(K, p)
  /\ LET r == [NewReq("create", nextId, NullN) EXCEPT !.body = body]
         newDevice == createDevice(body)
     IN  IF CreateBodyValid(body)
         THEN /\ devices' = (nextId :> newDevice) @@ devices
              /\ nextId' = nextId + 1
              /\ reqs' = [reqs EXCEPT ![p] =
                   [RespondData(r, 201, <<newDevice>>) EXCEPT !.wrote = TRUE]]
         ELSE /\ UNCHANGED <<devices, nextId>>
              /\ reqs' = [reqs EXCEPT ![p] = Respond(r, 400)]
  /\ nreq' = nreq + 1
  /\ UNCHANGED <<device_files, device_history, uploads, okUploads, clock>>

(* --------------------------- PUT /devices/:id -------------------------- *)

PutStart(K, p, id, principal, body) ==
  /\ CanStart(K, p)
  /\ LET r == [NewReq("update", id, principal) EXCEPT !.body = body]
         existing == getDeviceById(devices, id)
     IN  reqs' = [reqs EXCEPT ![p] =
           IF ~UpdateBodyValid(body) THEN Respond(r, 400)
           ELSE IF existing = <<>> THEN Respond(r, 404)
           ELSE [r EXCEPT !.pc = "updateDevice", !.existing = existing]]
  /\ nreq' = nreq + 1
  /\ UNCHANGED <<devices, nextId, device_files, device_history, uploads, okUploads, clock>>

\* mutant: the update writes the row the handler read, with the new fields
PutUpdate_FromExisting(p) ==
  /\ At(p, "update", "updateDevice")
  /\ LET r == reqs[p]
         data == UpdateData(r.body)
     IN  IF updateDeviceThrows(devices, r.id, data)
         THEN /\ devices' = devices
              /\ reqs' = [reqs EXCEPT ![p] = Respond(r, 500)]
         ELSE /\ devices' = updateDevice((r.id :> r.existing[1]) @@ devices, r.id, data)
              /\ LET updatedDevice == getDeviceById(devices', r.id)
                     u == [r EXCEPT !.updated = updatedDevice,
                                    !.wrote = (updatedDevice # <<>>)]
                 IN  reqs' = [reqs EXCEPT ![p] =
                       IF StatusChanged(r.existing, updatedDevice)
                       THEN [u EXCEPT !.pc = "addHistoryEntry"]
                       ELSE RespondData(u, 200, updatedDevice)]
  /\ UNCHANGED <<nextId, device_files, device_history, uploads, okUploads, clock, nreq>>

PutUpdate(p) ==
  /\ At(p, "update", "updateDevice")
  /\ LET r == reqs[p]
         data == UpdateData(r.body)
     IN  IF updateDeviceThrows(devices, r.id, data)
         THEN /\ devices' = devices
              /\ reqs' = [reqs EXCEPT ![p] = Respond(r, 500)]
         ELSE /\ devices' = updateDevice(devices, r.id, data)
              /\ LET updatedDevice == getDeviceById(devices', r.id)
                     u == [r EXCEPT !.updated = updatedDevice,
                                    !.wrote = (updatedDevice # <<>>)]
                 IN  reqs' = [reqs EXCEPT ![p] =
                       IF StatusChanged(r.existing, updatedDevice)
                       THEN [u EXCEPT !.pc = "addHistoryEntry"]
                       ELSE RespondData(u, 200, updatedDevice)]
  /\ UNCHANGED <<nextId, device_files, device_history, uploads, okUploads, clock, nreq>>

PutHistory(p) ==
  /\ At(p, "update", "addHistoryEntry")
  /\ LET r == reqs[p]
         row == HistoryRow(r.id, "status_changed", SessionUserId(r.principal),
                           Details(UndefN, r.existing[1].status,
                                   r.updated[1].status))
     IN  IF HistoryInsertOk(devices, row)
         THEN /\ device_history' = addHistoryEntry(device_history, row)
              /\ reqs' = [reqs EXCEPT ![p] =
                   [RespondData(r, 200, r.updated) EXCEPT !.wrote = TRUE]]
         ELSE /\ device_history' = device_history
              /\ reqs' = [reqs EXCEPT ![p] = Respond(r, 500)]
  /\ UNCHANGED <<devices, nextId, device_files, uploads, okUploads, clock, nreq>>

(* ------------------------ GET /devices/:id/files ----------------------- *)

ListFilesStart(K, p, id) ==
  /\ CanStart(K, p)
  /\ LET r == NewReq("listFiles", id, NullN)
     IN  reqs' = [reqs EXCEPT ![p] =
           IF getDeviceById(devices, id) = <<>> THEN Respond(r, 404)
           ELSE [r EXCEPT !.pc = "getDeviceFiles"]]
  /\ nreq' = nreq + 1
  /\ UNCHANGED <<devices, nextId, device_files, device_history, uploads, okUploads, clock>>

ListFilesQuery(p) ==
  /\ At(p, "listFiles", "getDeviceFiles")
  /\ reqs' = [reqs EXCEPT ![p] =
       RespondData(reqs[p], 200, getDeviceFiles(device_files, reqs[p].id))]
  /\ UNCHANGED <<devices, nextId, device_files, device_history, uploads, okUploads, clock, nreq>>

(* ------------------------ POST /devices/:id/files ---------------------- *)

\* upload.single('file'): multer stores the file part before the handler runs
UploadStart(K, p, id, file) ==
  /\ CanStart(K, p)
  /\ LET r == [NewReq("addFile", id, NullN) EXCEPT !.file = file]
     IN  IF file = <<>>
         THEN /\ uploads' = uploads
              /\ reqs' = [reqs EXCEPT ![p] = [r EXCEPT !.pc = "getDeviceById"]]
         ELSE IF file[1].size > FileSizeLimit
         THEN /\ uploads' = uploads
              /\ reqs' = [reqs EXCEPT ![p] = Respond(r, 500)]
         ELSE LET path == StoragePath(id, clock, file[1].originalname)
              IN  /\ uploads' = diskStorage(uploads, path)
                  /\ reqs' = [reqs EXCEPT ![p] =
                       [r EXCEPT !.pc = "getDeviceById", !.path = path,
                                 !.wrote = TRUE]]
  /\ nreq' = nreq + 1
  /\ UNCHANGED <<devices, nextId, device_files, device_history, clock, okUploads>>

UploadGetDevice(p) ==
  /\ At(p, "addFile", "getDeviceById")
  /\ LET r == reqs[p]
     IN  reqs' = [reqs EXCEPT ![p] =
           IF getDeviceById(devices, r.id) = <<>> THEN Respond(r, 404)
           ELSE IF r.file = <<>> THEN Respond(r, 400)
           ELSE [r EXCEPT !.pc = "getNextFileVersion"]]
  /\ UNCHANGED <<devices, nextId, device_files, device_history, uploads, okUploads, clock, nreq>>

UploadNextVersion(p) ==
  /\ At(p, "addFile", "getNextFileVersion")
  /\ reqs' = [reqs EXCEPT ![p].pc = "insert",
                          ![p].version = getNextFileVersion(device_files, reqs[p].id)]
  /\ UNCHANGED <<devices, nextId, device_files, device_history, uploads, okUploads, clock, nreq>>

UploadInsert(p) ==
  /\ At(p, "addFile", "insert")
  /\ LET r == reqs[p]
         row == addDeviceFile([device_id |-> r.id,
                               filename |-> r.file[1].originalname,
                               storage_path |-> r.path,
                               content_type |-> r.file[1].mimetype,
                               file_size |-> r.file[1].size], r.version)
     IN  IF FileInsertOk(devices, device_files, row)
         THEN /\ device_files' = Append(device_files, row)
              /\ okUploads' = (r.id :> OkCount(r.id) + 1) @@ okUploads
              /\ reqs' = [reqs EXCEPT ![p] = RespondData(r, 201, <<row>>)]
         ELSE /\ device_files' = device_files
              /\ okUploads' = okUploads
              /\ reqs' = [reqs EXCEPT ![p] = Respond(r, 500)]
  /\ UNCHANGED <<devices, nextId, device_history, uploads, clock, nreq>>

(* --------------------------- datastore failure ------------------------- *)

\* pool.query rejects (the connection is lost, the statement times out): the
\* await throws, the handler's catch answers 500, and what the handler has
\* written so far stays
QueryFails(p) ==
  /\ reqs[p].pc \notin {"idle", "done"}
  /\ reqs' = [reqs EXCEPT ![p] = Respond(reqs[p], 500)]
  /\ UNCHANGED <<devices, nextId, device_files, device_history, uploads, okUploads, clock, nreq>>

\* POST /devices with a body that passes the checks, and the INSERT rejects
CreateFails(K, p, body) ==
  /\ CanStart(K, p)
  /\ CreateBodyValid(body)
  /\ reqs' = [reqs EXCEPT ![p] =
       Respond([NewReq("create", nextId, NullN) EXCEPT !.body = body], 500)]
  /\ nreq' = nreq + 1
  /\ UNCHANGED <<devices, nextId, device_files, device_history, uploads, okUploads, clock>>

(* ------------------------------ environment ---------------------------- *)

\* time passes
Tick ==
  /\ clock < MaxClock
  /\ clock' = clock + 1
  /\ UNCHANGED <<devices, nextId, device_files, device_history, uploads, okUploads, reqs, nreq>>

\* the response has been sent: the slot is free for the next request
Retire(p) ==
  /\ reqs[p].pc = "done"
  /\ reqs' = [reqs EXCEPT ![p] = IdleReq]
  /\ UNCHANGED <<devices, nextId, device_files, device_history, uploads, okUploads, clock, nreq>>

(* ---------------------------- specifications --------------------------- *)

\* Arrivals take K, the number of requests that may be in flight together.
\* The handlers that never read the session take no principal.

ArriveRegistry(K, p) ==
  \/ \E body \in CreateBodies : Create(K, p, body)
  \/ \E id \in DeviceIdInputs, u \in Principals, body \in UpdateBodies :
       PutStart(K, p, id, u, body)
  \/ \E id \in DeviceIdInputs : Delete(K, p, id)

ArriveAssign(K, p) ==
  \/ \E id \in DeviceIdInputs, u \in Principals, userId \in UserIdInputs :
       AssignStart(K, p, id, u, userId)
  \/ \E id \in DeviceIdInputs, u \in Principals : CheckinStart(K, p, id, u)

ArriveRead(K, p) ==
  \/ \E u \in Principals : ListUsers(K, p, u)
  \/ \E id \in DeviceIdInputs, u \in Principals : ListHistoryStart(K, p, id, u)
  \/ \E id \in DeviceIdInputs : GetById(K, p, id)

ArriveFiles(K, p) ==
  \E id \in DeviceIdInputs, file \in UploadInputs : UploadStart(K, p, id, file)

ArriveList(K, p) ==
  \E search \in SearchInputs, status \in StatusFilterInputs :
    \/ ListDevices(K, p, search, status)
    \/ ExportCsv(K, p, search, status)

ContinueRegistry(p) ==
  \/ PutUpdate(p)
  \/ PutHistory(p)

ContinueAssign(p) ==
  \/ AssignGetUser(p)
  \/ AssignUpdate(p)
  \/ AssignReread(p)
  \/ AssignHistory(p)
  \/ CheckinUpdate(p)
  \/ CheckinReread(p)
  \/ CheckinHistory(p)

ContinueRead(p) == ListHistoryQuery(p)

ContinueFiles(p) ==
  \/ UploadGetDevice(p)
  \/ UploadNextVersion(p)
  \/ UploadInsert(p)

\* every handler, requests running concurrently with their queries interleaved
Next ==
  \/ Tick
  \/ \E p \in Procs :
       \/ ArriveRegistry(MaxProcs, p) \/ ArriveAssign(MaxProcs, p)
       \/ ArriveRead(MaxProcs, p) \/ ArriveFiles(MaxProcs, p)
       \/ ArriveList(MaxProcs, p)
       \/ ContinueRegistry(p) \/ ContinueAssign(p)
       \/ ContinueRead(p) \/ ContinueFiles(p)
       \/ Retire(p)

Spec == Init /\ [][Next]_vars

\* the handlers of one device, one request at a time
NextSeq ==
  \/ Tick
  \/ ArriveRegistry(1, 1) \/ ArriveAssign(1, 1)
  \/ ArriveRead(1, 1) \/ ArriveFiles(1, 1)
  \/ ContinueRegistry(1) \/ ContinueAssign(1)
  \/ ContinueRead(1) \/ ContinueFiles(1)
  \/ Retire(1)

SpecSeq == Init /\ [][NextSeq]_vars

\* the handlers that write devices and device_history, and the guarded
\* reads, running concurrently (no handler left out writes either table)
NextAssign ==
  \/ Tick
  \/ \E p \in Procs :
       \/ ArriveRegistry(MaxProcs, p) \/ ArriveAssign(MaxProcs, p)
       \/ ArriveRead(MaxProcs, p)
       \/ ContinueRegistry(p) \/ ContinueAssign(p) \/ ContinueRead(p)
       \/ Retire(p)

SpecAssign == Init /\ [][NextAssign]_vars

\* the handlers that write devices' existence, device_files and uploads,
\* running concurrently (no handler left out writes device_files)
NextFiles ==
  \/ Tick
  \/ \E p \in Procs :
       \/ \E body \in CreateBodies : Create(MaxProcs, p, body)
       \/ \E id \in DeviceIdInputs : Delete(MaxProcs, p, id)
       \/ ArriveFiles(MaxProcs, p)
       \/ ContinueFiles(p)
       \/ Retire(p)

SpecFiles == Init /\ [][NextFiles]_vars

\* the list and the export, one request at a time, between requests that
\* create, update, assign, check in and delete devices
NextList ==
  \/ \E body \in ListCreateBodies : Create(1, 1, body)
  \/ \E id \in DeviceIdInputs :
       \/ PutStart(1, 1, id, NullN, [NoBody EXCEPT !.status = "maintenance"])
       \/ AssignStart(1, 1, id, 1, 2)
       \/ CheckinStart(1, 1, id, 1)
       \/ Delete(1, 1, id)
  \/ ArriveList(1, 1)
  \/ ContinueRegistry(1) \/ ContinueAssign(1)
  \/ Retire(1)

SpecList == Init /\ [][NextList]_vars

\* create, assign, checkin and upload, one request at a time, on a
\* datastore whose queries can fail
NextFail ==
  \/ \E body \in CreateBodies : Create(1, 1, body) \/ CreateFails(1, 1, body)
  \/ \E id \in DeviceIdInputs, userId \in {2, 3} : AssignStart(1, 1, id, 1, userId)
  \/ \E id \in DeviceIdInputs : CheckinStart(1, 1, id, 1)
  \/ ArriveFiles(1, 1)
  \/ ContinueAssign(1) \/ ContinueFiles(1)
  \/ QueryFails(1)
  \/ Retire(1)

SpecFail == Init /\ [][NextFail]_vars

\* uploads, one request at a time, also of a file with no bytes, between
\* requests that create and delete devices
NextUpload ==
  \/ Tick
  \/ \E body \in CreateBodies : Create(1, 1, body)
  \/ \E id \in DeviceIdInputs :
       \/ Delete(1, 1, id)
       \/ \E file \in UploadInputs \cup {<<UploadedFile(<<"e">>, "text/plain", 0)>>} :
            UploadStart(1, 1, id, file)
  \/ ContinueFiles(1)
  \/ Retire(1)

SpecUpload == Init /\ [][NextUpload]_vars

\* create, update, delete and read of devices, one request at a time, with
\* bodies that pass and bodies that fail the checks
NextRegistry ==
  \/ \E body \in RegistryCreateBodies : Create(1, 1, body)
  \/ \E id \in DeviceIdInputs :
       \/ \E body \in RegistryUpdateBodies : PutStart(1, 1, id, NullN, body)
       \/ Delete(1, 1, id)
       \/ GetById(1, 1, id)
  \/ ContinueRegistry(1)
  \/ Retire(1)

SpecRegistry == Init /\ [][NextRegistry]_vars

\* bodies of PUT /devices/:id that change different fields
RaceUpdateBodies ==
  { [NoBody EXCEPT !.status = "maintenance"],
    [NoBody EXCEPT !.location = "Lab"] }

\* the requests that write one device, in flight together until all of them
\* are answered: its deletion, its assignment and check-in, updates of
\* different fields, and an upload
NextRace ==
  \E p \in Procs :
    \/ Delete(MaxProcs, p, 1)
    \/ AssignStart(MaxProcs, p, 1, 1, 2)
    \/ CheckinStart(MaxProcs, p, 1, 1)
    \/ \E body \in RaceUpdateBodies : PutStart(MaxProcs, p, 1, 1, body)
    \/ UploadStart(MaxProcs, p, 1,
                   <<UploadedFile(<<"a", " ", "b">>, "text/plain", 100)>>)
    \/ ContinueRegistry(p) \/ ContinueAssign(p) \/ ContinueFiles(p)

SpecRace == Init /\ [][NextRace]_vars

\* creates with bodies that pass and bodies that fail the checks, between
\* uploads to the sample device and to the device created, one request at a
\* time
NextCreate ==
  \/ \E body \in RegistryCreateBodies : Create(1, 1, body)
  \/ ArriveFiles(1, 1)
  \/ ContinueFiles(1)
  \/ Retire(1)

SpecCreate == Init /\ [][NextCreate]_vars

\* every handler, one request at a time
NextAll ==
  \/ NextSeq
  \/ ArriveList(1, 1)
  \/ \E id \in DeviceIdInputs : ListFilesStart(1, 1, id)
  \/ ListFilesQuery(1)

SpecAll == Init /\ [][NextAll]_vars

(* ------------------------------- claims -------------------------------- *)

Done(p, op) == reqs[p].op = op /\ reqs[p].pc = "done"

LastOf(seq) == seq[Len(seq)]

\* C1: in every reachable state, whatever create, update, assign, checkin
\* and delete requests have run, every device has assigned_user_id set if
\* and only if assigned_at is set.
C1_AssignmentConsistent ==
  \A id \in DOMAIN devices :
    (devices[id].assigned_user_id # NullN) <=> (devices[id].assigned_at # NullN)

\* a device is assigned (both fields set) by an assign request that answered 200
C1_Witness ==
  \E p \in Procs :
    /\ Done(p, "assign") /\ reqs[p].res = 200
    /\ reqs[p].id \in DOMAIN devices
    /\ devices[reqs[p].id].assigned_user_id = reqs[p].userId
    /\ devices[reqs[p].id].assigned_at # NullN

\* C2: in every reachable state, also with uploads to one device interleaved,
\* the versions of the device_files rows of every device are exactly 1..n,
\* n the number of uploads to it answered with success, each version once.
C2_VersionsGapless ==
  \A id \in DOMAIN devices :
    LET mine == FilesOf(device_files, id)
    IN  /\ Len(mine) = OkCount(id)
        /\ {mine[i].version : i \in 1..Len(mine)} = 1..OkCount(id)

\* device 1 holds versions 1 and 2 after an upload lost the race for a slot
C2_Witness ==
  \E p, q \in Procs :
    /\ Done(p, "addFile") /\ reqs[p].id = 1 /\ reqs[p].res = 500
    /\ reqs[p].version >= 1
    /\ Done(q, "addFile") /\ reqs[q].id = 1 /\ reqs[q].res = 201
    /\ reqs[q].version = 2

\* C3: an upload of a file within the size limit to a device that exists is
\* answered with success, also when uploads to the same device run
\* concurrently: a conflict on the (device, version) slot is retried and
\* not surfaced.
C3_ConflictRetried ==
  \A p \in Procs :
    ( /\ Done(p, "addFile")
      /\ reqs[p].file # <<>>
      /\ reqs[p].dev0 # <<>>
      /\ reqs[p].id \in DOMAIN devices
      /\ reqs[p].file[1].size <= FileSizeLimit )
    => reqs[p].res = 201

\* two uploads to device 1 have ended, one stored as version 1 and the other
\* answered 500 after reading the same next version
C3_Witness ==
  \E p, q \in Procs :
    /\ p # q
    /\ Done(p, "addFile") /\ reqs[p].id = 1 /\ reqs[p].res = 201 /\ reqs[p].version = 1
    /\ Done(q, "addFile") /\ reqs[q].id = 1 /\ reqs[q].res = 500 /\ reqs[q].version = 1

\* C4: an update that runs alone and is answered 200: if its body holds a
\* status b different from the status a the device had, the device's
\* history grows by exactly one entry, status_changed with {from: a, to: b};
\* if the body holds no status or the status the device had, the history
\* does not grow.
C4_StatusChangeLogged ==
  \A p \in Procs :
    (Done(p, "update") /\ reqs[p].res = 200) =>
      LET r == reqs[p]
          a == r.dev0[1].status
          b == r.body.status
          h == HistoryOf(device_history, r.id)
      IN  IF b # UndefS /\ b # a
          THEN /\ Len(h) = r.h0 + 1
               /\ LastOf(h).action = "status_changed"
               /\ LastOf(h).details = Details(UndefN, a, b)
          ELSE Len(h) = r.h0

\* an update of an active device to maintenance has appended its entry
C4_Witness ==
  \E p \in Procs :
    /\ Done(p, "update") /\ reqs[p].res = 200
    /\ reqs[p].dev0[1].status = "active"
    /\ reqs[p].body.status = "maintenance"
    /\ LET h == HistoryOf(device_history, reqs[p].id)
       IN  /\ Len(h) = reqs[p].h0 + 1
           /\ LastOf(h).details = Details(UndefN, "active", "maintenance")

\* C5: a checkin by a logged-in caller on a device that exists, run alone,
\* is answered 200 whatever the assignment of the device, leaves
\* assigned_user_id and assigned_at null, and appends exactly one checked_in
\* entry with empty details: so two in a row leave the device available both
\* times and append two entries.
C5_CheckinIdempotent ==
  \A p \in Procs :
    (Done(p, "checkin") /\ requireAuth(reqs[p].principal) /\ reqs[p].dev0 # <<>>) =>
      LET r == reqs[p]
          h == HistoryOf(device_history, r.id)
      IN  /\ r.res = 200
          /\ devices[r.id].assigned_user_id = NullN
          /\ devices[r.id].assigned_at = NullN
          /\ Len(h) = r.h0 + 1
          /\ LastOf(h).action = "checked_in"
          /\ LastOf(h).details = EmptyDetails

\* the second of two checkins in a row of one device: the device was
\* available when it arrived, and the entry before its own is checked_in
C5_Witness ==
  \E p \in Procs :
    /\ Done(p, "checkin") /\ reqs[p].res = 200
    /\ reqs[p].dev0 # <<>>
    /\ reqs[p].dev0[1].assigned_user_id = NullN
    /\ LET h == HistoryOf(device_history, reqs[p].id)
       IN  /\ Len(h) >= 2
           /\ h[Len(h)].action = "checked_in"
           /\ h[Len(h) - 1].action = "checked_in"

\* C6: once a device is deleted, no device_files row and no device_history
\* row with its id is in the store, the delete was answered 200 with the
\* device gone, and a getById of the id is answered 404.
C6_DeleteLeavesNoRows ==
  /\ \A id \in 1..(nextId - 1) :
       id \notin DOMAIN devices =>
         /\ FilesOf(device_files, id) = <<>>
         /\ HistoryOf(device_history, id) = <<>>
         /\ \A p \in Procs : (Done(p, "getById") /\ reqs[p].id = id) => reqs[p].res = 404
  /\ \A p \in Procs :
       (Done(p, "delete") /\ reqs[p].res = 200) => reqs[p].id \notin DOMAIN devices

\* a device that had a file and a history entry has been deleted
C6_Witness ==
  \E p \in Procs :
    /\ Done(p, "delete") /\ reqs[p].res = 200
    /\ reqs[p].h0 >= 1
    /\ OkCount(reqs[p].id) >= 1
    /\ reqs[p].id \notin DOMAIN devices

\* the user an assign request names exists and is active
TargetOk(userId) ==
  userId \in DOMAIN Users /\ Users[userId].active

\* C7: an assign request is answered 200 only if the device existed when it
\* arrived and the target user exists and is active; if the device is
\* missing or the user is missing or inactive, the request is rejected
\* (400, 401 or 404) and at no point changes a device or appends history.
C7_AssignRequiresActiveUser ==
  \A p \in Procs :
    reqs[p].op = "assign" =>
      /\ reqs[p].res = 200 => (reqs[p].dev0 # <<>> /\ TargetOk(reqs[p].userId))
      /\ (reqs[p].dev0 = <<>> \/ ~TargetOk(reqs[p].userId)) =>
           /\ ~reqs[p].wrote
           /\ reqs[p].pc = "done" => reqs[p].res \in {400, 401, 404}

\* a logged-in caller's assign to the inactive user was rejected, on a
\* device that exists
C7_Witness ==
  \E p \in Procs :
    /\ Done(p, "assign") /\ reqs[p].res = 400
    /\ requireAuth(reqs[p].principal)
    /\ reqs[p].userId \in DOMAIN Users /\ ~Users[reqs[p].userId].active
    /\ reqs[p].id \in DOMAIN devices

\* C8: an assign by a logged-in caller, run alone, of a device that is
\* already assigned, to an active user, is answered 200 without a checkin:
\* afterwards the device is assigned to the new user, and exactly one entry
\* is appended: assigned, {assigned_user_id: the new user}, actor the caller.
C8_ReassignOverwrites ==
  \A p \in Procs :
    ( /\ Done(p, "assign") /\ requireAuth(reqs[p].principal)
      /\ reqs[p].dev0 # <<>> /\ TargetOk(reqs[p].userId) ) =>
      LET r == reqs[p]
          h == HistoryOf(device_history, r.id)
      IN  r.dev0[1].assigned_user_id # NullN =>
            /\ r.res = 200
            /\ devices[r.id].assigned_user_id = r.userId
            /\ Len(h) = r.h0 + 1
            /\ LastOf(h) = HistoryRow(r.id, "assigned", r.principal,
                                      Details(r.userId, UndefS, UndefS))

\* a device assigned to one user has been assigned to another
C8_Witness ==
  \E p \in Procs :
    /\ Done(p, "assign") /\ reqs[p].res = 200
    /\ reqs[p].dev0[1].assigned_user_id \notin {NullN, reqs[p].userId}
    /\ devices[reqs[p].id].assigned_user_id = reqs[p].userId

\* C9: an assign, a checkin or a user listing from a caller with no session
\* is answered 401 at once, returns no data, and changes no stored row.
C9_AnonymousRejected ==
  \A p \in Procs :
    (reqs[p].op \in {"assign", "checkin", "listUsers"} /\ reqs[p].principal = NullN) =>
      /\ reqs[p].pc = "done"
      /\ reqs[p].res = 401
      /\ reqs[p].data = <<>>
      /\ reqs[p].updated = <<>>
      /\ ~reqs[p].wrote

\* an anonymous assign to an active user of a device that exists was refused
C9_Witness ==
  \E p \in Procs :
    /\ Done(p, "assign") /\ reqs[p].principal = NullN
    /\ reqs[p].res = 401
    /\ reqs[p].id \in DOMAIN devices
    /\ TargetOk(reqs[p].userId)

\* C10: a history listing of a device that exists, from a caller with no
\* session, is answered with an authorization failure and no entries.
C10_HistoryRequiresAuth ==
  \A p \in Procs :
    (Done(p, "listHistory") /\ reqs[p].principal = NullN /\ reqs[p].dev0 # <<>>) =>
      /\ reqs[p].res = 401
      /\ reqs[p].data = <<>>

\* an anonymous caller has been handed the entries of a device's history
C10_Witness ==
  \E p \in Procs :
    /\ Done(p, "listHistory") /\ reqs[p].principal = NullN
    /\ reqs[p].res = 200
    /\ reqs[p].data # <<>>

\* the characters of the hostnames of the devices
HostnameChars ==
  ("router-main-01" :> <<"r", "o", "u", "t", "e", "r", "-", "m", "a", "i", "n", "-", "0", "1">>) @@
  ("switch-floor2" :> <<"s", "w", "i", "t", "c", "h", "-", "f", "l", "o", "o", "r", "2">>) @@
  ("firewall-perimeter" :> <<"f", "i", "r", "e", "w", "a", "l", "l", "-", "p", "e", "r", "i", "m", "e", "t", "e", "r">>) @@
  ("ap-conference-room" :> <<"a", "p", "-", "c", "o", "n", "f", "e", "r", "e", "n", "c", "e", "-", "r", "o", "o", "m">>) @@
  ("server-web-01" :> <<"s", "e", "r", "v", "e", "r", "-", "w", "e", "b", "-", "0", "1">>) @@
  ("sw-01" :> <<"s", "w", "-", "0", "1">>) @@
  (Quote :> <<Quote>>)

\* lower case of the letters of the search terms
Lower(c) == IF c = "S" THEN "s" ELSE IF c = "W" THEN "w" ELSE c

\* term occurs in text, letters compared without case
ContainsCI(text, term) ==
  \E k \in 0..(Len(text) - Len(term)) :
    \A i \in 1..Len(term) : Lower(text[k + i]) = Lower(term[i])

\* the device satisfies the filter
Matches(d, filters) ==
  /\ filters.search # UndefC =>
       \/ ContainsCI(HostnameChars[d.hostname], filters.search)
       \/ ContainsCI(d.ip_address, filters.search)
  /\ filters.status # UndefS => d.status = filters.status

\* the devices that satisfy the filter, in ascending id order
Listed(devs, filters) ==
  LET ids == SortedIds({id \in DOMAIN devs : Matches(devs[id], filters)})
  IN  [i \in 1..Len(ids) |-> JoinedRow(devs, ids[i])]

\* C11: a list request, run alone, returns exactly the devices that satisfy
\* its filter, in ascending id order: with a search term those whose
\* hostname or ip_address contains it (letters compared without case), with
\* a status those of that status, with neither all devices.
C11_ListFiltered ==
  \A p \in Procs :
    Done(p, "list") => reqs[p].data = Listed(devices, reqs[p].filters)

\* a list request with status maintenance was answered with a device that
\* is active
C11_Witness ==
  \E p \in Procs :
    /\ Done(p, "list") /\ reqs[p].res = 200
    /\ reqs[p].filters.status = "maintenance"
    /\ \E i \in 1..Len(reqs[p].data) : reqs[p].data[i].status = "active"

\* a cell that holds nothing: ""
EmptyCell == <<Quote, Quote>>

\* a cell that holds the text null
NullTextCell == <<Quote, "n", "u", "l", "l", Quote>>

\* C12: an export, run alone, answers with the header line and then exactly
\* one line per device the list returns for the same filter, in the same
\* order (ascending id); the cell of an absent manufacturer, assignee or
\* location is an empty quoted cell, and no cell holds the text null.
C12_ExportMatchesList ==
  \A p \in Procs :
    Done(p, "export") =>
      LET rows == getDevices(devices, reqs[p].filters)
          csv == reqs[p].data
      IN  /\ reqs[p].res = 200
          /\ Len(csv) = 1 + Len(rows)
          /\ csv[1] = CsvHeaders
          /\ \A i, j \in 1..Len(rows) : i < j => rows[i].id < rows[j].id
          /\ \A i \in 1..Len(rows) :
               /\ csv[i + 1][1] = escape(ToText(rows[i].hostname))
               /\ csv[i + 1][2] = escape(rows[i].ip_address)
               /\ rows[i].manufacturer_name = NullS => csv[i + 1][4] = EmptyCell
               /\ rows[i].assigned_to_name = NullS => csv[i + 1][6] = EmptyCell
               /\ rows[i].location = NullS => csv[i + 1][7] = EmptyCell
               /\ \A c \in 1..7 : csv[i + 1][c] # NullTextCell

\* an export of six devices: the created one has no manufacturer, no
\* assignee and no location, and its line has three empty cells
C12_Witness ==
  \E p \in Procs :
    /\ Done(p, "export") /\ reqs[p].res = 200
    /\ Len(reqs[p].data) = 7
    /\ 6 \in DOMAIN devices
    /\ devices[6].location = NullS /\ devices[6].manufacturer_id = NullN
    /\ devices[6].assigned_user_id = NullN
    /\ reqs[p].data[7][4] = EmptyCell
    /\ reqs[p].data[7][6] = EmptyCell
    /\ reqs[p].data[7][7] = EmptyCell

\* C13: a create, an assign or an upload that is answered with an error,
\* whichever step failed, has applied nothing: the device's row is as it was
\* when the request arrived (or as absent), its history has no new entry,
\* and it has the file rows it had.
C13_NoPartialEffects ==
  \A p \in Procs :
    ( /\ reqs[p].op \in {"create", "assign", "addFile"}
      /\ reqs[p].pc = "done" /\ reqs[p].res >= 400 ) =>
      /\ getDeviceById(devices, reqs[p].id) = reqs[p].dev0
      /\ Len(HistoryOf(device_history, reqs[p].id)) = reqs[p].h0
      /\ Len(FilesOf(device_files, reqs[p].id)) = reqs[p].f0

\* an assign was answered 500 after the insert of its history entry failed,
\* and the device is assigned to the user it named
C13_Witness ==
  \E p \in Procs :
    /\ Done(p, "assign") /\ reqs[p].res = 500
    /\ reqs[p].dev0 # <<>> /\ reqs[p].dev0[1].assigned_user_id = NullN
    /\ devices[reqs[p].id].assigned_user_id = reqs[p].userId
    /\ Len(HistoryOf(device_history, reqs[p].id)) = reqs[p].h0

\* C14: in every reachable state, the storage path of every device_files
\* row names bytes that are in the uploads directory: the file is written
\* before its row is inserted, and is not removed afterwards.
C14_BlobBeforeRow ==
  \A i \in 1..Len(device_files) : device_files[i].storage_path \in uploads

\* an upload was answered 201: its row is stored and refers to its bytes
C14_Witness ==
  \E p \in Procs :
    /\ Done(p, "addFile") /\ reqs[p].res = 201
    /\ reqs[p].path \in uploads
    /\ \E i \in 1..Len(device_files) : device_files[i].storage_path = reqs[p].path

\* C15: an upload, run alone, is answered 201 only if the device exists, a
\* file was sent, and the file has at least one byte and at most 5 MiB; an
\* upload to a missing device, with no file, with an empty file or with a
\* file over 5 MiB is rejected and adds no row to the device's files.
C15_UploadRequiresContent ==
  \A p \in Procs :
    Done(p, "addFile") =>
      LET r == reqs[p]
          ok == /\ r.dev0 # <<>>
                /\ r.file # <<>>
                /\ r.file[1].size > 0
                /\ r.file[1].size <= FileSizeLimit
      IN  /\ r.res = 201 => ok
          /\ ~ok => /\ r.res >= 400
                    /\ Len(FilesOf(device_files, r.id)) = r.f0

\* an upload of a file with no bytes was answered 201 and its row is stored
C15_Witness ==
  \E p \in Procs :
    /\ Done(p, "addFile") /\ reqs[p].res = 201
    /\ reqs[p].file[1].size = 0
    /\ \E i \in 1..Len(device_files) :
         /\ device_files[i].device_id = reqs[p].id
         /\ device_files[i].storage_path = reqs[p].path
         /\ device_files[i].file_size = NullN

\* C16: in every reachable state every stored device has a status of the
\* enum; an update whose body holds a status outside it (an empty or null
\* one included), and a create whose body holds a non-empty one outside it,
\* is answered 400 and writes nothing.
C16_StatusInEnum ==
  /\ \A id \in DOMAIN devices : devices[id].status \in Statuses
  /\ \A p \in Procs :
       ( /\ reqs[p].pc = "done"
         /\ \/ /\ reqs[p].op = "update"
               /\ reqs[p].body.status \notin Statuses \cup {UndefS}
            \/ /\ reqs[p].op = "create"
               /\ reqs[p].body.status \notin Statuses \cup {UndefS, NullS, ""} ) =>
         /\ reqs[p].res = 400
         /\ ~reqs[p].wrote

\* an update with an empty status was answered 200 and the device's status
\* is the empty string
C16_Witness ==
  \E p \in Procs :
    /\ Done(p, "update") /\ reqs[p].res = 200
    /\ reqs[p].body.status = ""
    /\ devices[reqs[p].id].status = ""

\* C17: in every reachable state every stored device has a non-empty
\* hostname and an ip_address of four dot-separated groups of one to three
\* digits; an update whose body holds an empty or null hostname, or an
\* ip_address that is not of that form, is answered 400 and leaves the
\* device as it was.
C17_UpdateValidatesLikeCreate ==
  /\ \A id \in DOMAIN devices :
       /\ devices[id].hostname \notin {"", NullS}
       /\ ipRegexTest(devices[id].ip_address)
  /\ \A p \in Procs :
       ( /\ Done(p, "update") /\ reqs[p].dev0 # <<>>
         /\ \/ reqs[p].body.hostname \in {"", NullS}
            \/ /\ reqs[p].body.ip_address # UndefC
               /\ ~ipRegexTest(reqs[p].body.ip_address) ) =>
         /\ reqs[p].res = 400
         /\ getDeviceById(devices, reqs[p].id) = reqs[p].dev0

\* an update with an empty hostname was answered 200 and the device's
\* hostname is the empty string
C17_Witness ==
  \E p \in Procs :
    /\ Done(p, "update") /\ reqs[p].res = 200
    /\ reqs[p].body.hostname = ""
    /\ devices[reqs[p].id].hostname = ""

\* C18: in every reachable state the device_type_id and the manufacturer_id
\* of every stored device is null or the id of a lookup row; a create or an
\* update whose body holds a device_type_id or a manufacturer_id that is not
\* the id of a lookup row is rejected and writes nothing.
C18_LookupIdsResolve ==
  /\ \A id \in DOMAIN devices :
       /\ devices[id].device_type_id \in DOMAIN DeviceTypes \cup {NullN}
       /\ devices[id].manufacturer_id \in DOMAIN Manufacturers \cup {NullN}
  /\ \A p \in Procs :
       ( /\ reqs[p].pc = "done" /\ reqs[p].op \in {"create", "update"}
         /\ \/ reqs[p].body.device_type_id \notin DOMAIN DeviceTypes \cup {UndefN, NullN}
            \/ reqs[p].body.manufacturer_id \notin DOMAIN Manufacturers \cup {UndefN, NullN} ) =>
         /\ reqs[p].res >= 400
         /\ ~reqs[p].wrote

\* a create with device_type_id 0 was answered 201: the device is stored,
\* with no device type id
C18_Witness ==
  \E p \in Procs :
    /\ Done(p, "create") /\ reqs[p].res = 201
    /\ reqs[p].body.device_type_id = 0
    /\ reqs[p].id \in DOMAIN devices
    /\ devices[reqs[p].id].device_type_id = NullN

\* C19: in every reachable state no two stored devices have the same
\* hostname; a create whose hostname is that of a stored device, and an
\* update whose hostname is that of another stored device, is answered 409
\* and leaves the devices as they were.
C19_HostnameUnique ==
  /\ \A a, b \in DOMAIN devices : a # b => devices[a].hostname # devices[b].hostname
  /\ \A p \in Procs :
       ( /\ reqs[p].pc = "done" /\ reqs[p].op \in {"create", "update"}
         /\ reqs[p].op = "update" => reqs[p].dev0 # <<>>
         /\ \E d \in DOMAIN devices :
              d # reqs[p].id /\ devices[d].hostname = reqs[p].body.hostname ) =>
         /\ reqs[p].res = 409
         /\ ~reqs[p].wrote

\* a create with the hostname of sample device 1 was answered 201, and two
\* devices have that hostname
C19_Witness ==
  \E p \in Procs :
    /\ Done(p, "create") /\ reqs[p].res = 201
    /\ reqs[p].id \in DOMAIN devices /\ 1 \in DOMAIN devices
    /\ devices[reqs[p].id].hostname = devices[1].hostname

\* the fields of a request body of PUT /devices/:id
BodyFields ==
  {"hostname", "ip_address", "device_type", "device_type_id",
   "manufacturer_id", "location", "status", "notes"}

\* the field is absent from the body
Absent(body, f) ==
  IF f \in {"device_type_id", "manufacturer_id"} THEN body[f] = UndefN
  ELSE IF f = "ip_address" THEN body[f] = UndefC
  ELSE body[f] = UndefS

\* C20: an update, run alone and answered 200, leaves every field that its
\* body does not hold as it was, the assignment fields included; an update
\* with no field returns the device as it was and changes nothing.
C20_PartialUpdate ==
  \A p \in Procs :
    (Done(p, "update") /\ reqs[p].res = 200) =>
      LET r == reqs[p]
          before == r.dev0[1]
          after == devices[r.id]
      IN  /\ \A f \in BodyFields : Absent(r.body, f) => after[f] = before[f]
          /\ after.assigned_user_id = before.assigned_user_id
          /\ after.assigned_at = before.assigned_at
          /\ r.body = NoBody => (after = before /\ r.data = r.dev0)

\* an update of the location alone was answered 200: the location is the new
\* one, and the hostname and the status are the old ones
C20_Witness ==
  \E p \in Procs :
    /\ Done(p, "update") /\ reqs[p].res = 200
    /\ reqs[p].body = [NoBody EXCEPT !.location = "Lab"]
    /\ devices[reqs[p].id].location = "Lab"
    /\ reqs[p].dev0[1].location # "Lab"
    /\ devices[reqs[p].id].hostname = reqs[p].dev0[1].hostname
    /\ devices[reqs[p].id].status = reqs[p].dev0[1].status

\* seq is the beginning of longer
IsPrefix(seq, longer) ==
  /\ Len(seq) <= Len(longer)
  /\ \A i \in 1..Len(seq) : longer[i] = seq[i]

\* C21: in every step of every command, the history of every device that
\* is not deleted by the step keeps the entries it has, in their order and
\* with their fields: the step changes nothing or appends.
C21_LedgerAppendOnly ==
  [][\A id \in DOMAIN devices' :
       IsPrefix(HistoryOf(device_history, id), HistoryOf(device_history', id))]_vars

\* a device has two entries: the second was appended to a history that held
\* the first
C21_Witness ==
  \E id \in DOMAIN devices : Len(HistoryOf(device_history, id)) >= 2

\* the commands that name a device
ByIdOps == {"getById", "update", "delete", "assign", "checkin", "addFile", "listFiles"}

\* the request has named a device that did not exist and has ended, and the
\* store holds for that id what it held
MissingUntouched(p) ==
  /\ getDeviceById(devices, reqs[p].id) = <<>>
  /\ Len(HistoryOf(device_history, reqs[p].id)) = reqs[p].h0
  /\ Len(FilesOf(device_files, reqs[p].id)) = reqs[p].f0
  /\ reqs[p].op # "addFile" => ~reqs[p].wrote

\* the caller is logged in where the route asks for it, and the body (the
\* file) passes the checks made before the handler looks for the device
PassesChecks(p) ==
  /\ reqs[p].op \in {"assign", "checkin"} => requireAuth(reqs[p].principal)
  /\ reqs[p].op = "assign" => ~FalsyN(reqs[p].userId)
  /\ reqs[p].op = "update" => UpdateBodyValid(reqs[p].body)
  /\ reqs[p].op = "addFile" =>
       (reqs[p].file = <<>> \/ reqs[p].file[1].size <= FileSizeLimit)

\* C22 as stated: every getById, update, delete, assign, checkin, addFile
\* and listFiles on an id that matches no device is answered 404 and leaves
\* the store unchanged.
C22_MissingIsNotFound ==
  \A p \in Procs :
    (reqs[p].op \in ByIdOps /\ reqs[p].pc = "done" /\ reqs[p].dev0 = <<>>) =>
      (reqs[p].res = 404 /\ MissingUntouched(p))

\* C22, amended: a getById, update, delete, assign, checkin, addFile or
\* listFiles on an id that matches no device, from a caller that is logged in
\* where the route asks for it, with a body that passes the handler's checks
\* and a file within the size limit, is answered 404 and leaves the store
\* unchanged.
C22_MissingIsNotFound_Checked ==
  \A p \in Procs :
    ( /\ reqs[p].op \in ByIdOps /\ reqs[p].pc = "done" /\ reqs[p].dev0 = <<>>
      /\ PassesChecks(p) ) =>
      (reqs[p].res = 404 /\ MissingUntouched(p))

\* an assign by a logged-in caller to an active user has named a device
\* that does not exist and was answered 404
C22_Witness ==
  \E p \in Procs :
    /\ Done(p, "assign") /\ reqs[p].dev0 = <<>>
    /\ requireAuth(reqs[p].principal) /\ TargetOk(reqs[p].userId)
    /\ reqs[p].res = 404

\* the body holds hostname, ip_address and one of device_type, device_type_id
HasRequired(body) ==
  /\ ~FalsyS(body.hostname)
  /\ ~FalsyC(body.ip_address)
  /\ ~FalsyS(body.device_type) \/ ~FalsyN(body.device_type_id)

C24_DistinctLocators ==
  \A i, j \in 1..Len(device_files) :
    i # j => device_files[i].storage_path # device_files[j].storage_path

\* two uploads to the same device at the same value of the clock have both
\* been answered 201 and both rows are in the table
C24_Witness ==
  \E i, j \in 1..Len(device_files) :
    /\ i # j
    /\ device_files[i].device_id = device_files[j].device_id
    /\ device_files[i].storage_path[2] = device_files[j].storage_path[2]
    /\ \A p \in Procs : reqs[p].op = "addFile" => reqs[p].res = 201

\* no request is between its arrival and its response
AllCompleted == \A p \in Procs : reqs[p].pc \in {"idle", "done"}

\* the assigned and checked_in entries of a device, oldest first
AssignmentEntries(id) ==
  SelectSeq(HistoryOf(device_history, id),
            LAMBDA h : h.action \in {"assigned", "checked_in"})

\* the status_changed entries of a device, oldest first
StatusEntries(id) ==
  SelectSeq(HistoryOf(device_history, id),
            LAMBDA h : h.action = "status_changed")

\* C25: when no request is in flight, every device with an assigned or
\* checked_in entry agrees with the last such entry: after assigned with
\* {assigned_user_id: u} the device is assigned to u, after checked_in it is
\* assigned to nobody; also when assign and checkin requests on the device
\* ran interleaved.
C25_AssignmentMatchesLedger ==
  AllCompleted =>
    \A id \in DOMAIN devices :
      AssignmentEntries(id) # <<>> =>
        LET last == LastOf(AssignmentEntries(id))
        IN  IF last.action = "assigned"
            THEN devices[id].assigned_user_id = last.details.assigned_user_id
            ELSE devices[id].assigned_user_id = NullN

\* an assign and a checkin of the same device were in flight together, both
\* were answered 200, and no request is in flight
C25_Witness ==
  /\ AllCompleted
  /\ \E p, q \in Procs :
       /\ Done(p, "assign") /\ Done(q, "checkin")
       /\ reqs[p].res = 200 /\ reqs[q].res = 200
       /\ reqs[p].id = reqs[q].id
       /\ Len(AssignmentEntries(reqs[p].id)) >= 2

\* C26: the status_changed entries of a device, oldest first, form a chain:
\* the first entry's from is the status the device had before any change,
\* the from of every later entry is the to of the entry before it, and when
\* no request is in flight the to of the last entry is the status of the
\* device; also when two updates of the device ran interleaved.
C26_StatusChain ==
  \A id \in DOMAIN devices :
    LET es == StatusEntries(id)
    IN  es # <<>> =>
          /\ id \in DOMAIN SampleDevices =>
                es[1].details.from = SampleDevices[id].status
          /\ \A i \in 2..Len(es) : es[i].details.from = es[i - 1].details.to
          /\ AllCompleted => LastOf(es).details.to = devices[id].status

\* two updates of the status of the same device were in flight together, both
\* were answered 200, and no request is in flight
C26_Witness ==
  /\ AllCompleted
  /\ \E p, q \in Procs :
       /\ p # q
       /\ Done(p, "update") /\ Done(q, "update")
       /\ reqs[p].res = 200 /\ reqs[q].res = 200
       /\ reqs[p].id = reqs[q].id
       /\ reqs[p].body.status # UndefS /\ reqs[q].body.status # UndefS
       /\ StatusEntries(reqs[p].id) # <<>>

\* C27: in every reachable state every row of device_files and every row of
\* device_history refers to a device that exists, also when the device is
\* deleted between the existence check of an assign, checkin, update or
\* upload and its insert of a history or file row.
C27_RowsReferToDevices ==
  /\ \A i \in 1..Len(device_files) :
       device_files[i].device_id \in DOMAIN devices
  /\ \A i \in 1..Len(device_history) :
       device_history[i].device_id \in DOMAIN devices

\* the device was deleted after the existence check of an assign, checkin,
\* update or upload passed and before its insert: the request was answered
\* 500 and the device is gone
C27_Witness ==
  \E p \in Procs :
    /\ reqs[p].op \in {"assign", "checkin", "update", "addFile"}
    /\ reqs[p].pc = "done" /\ reqs[p].res = 500
    /\ reqs[p].dev0 # <<>>
    /\ reqs[p].id \notin DOMAIN devices

\* the fields a body of PUT /devices/:id supplies
Supplied(body) == {f \in BodyFields : ~Absent(body, f)}

\* C28: when two updates of the same device that supply disjoint sets of
\* fields were the only requests and both have been answered 200, every
\* field either of them supplied holds the value it supplied, whatever the
\* order of their queries.
C28_DisjointUpdatesBothApply ==
  \A p, q \in Procs :
    ( /\ p # q /\ nreq = 2
      /\ Done(p, "update") /\ Done(q, "update")
      /\ reqs[p].res = 200 /\ reqs[q].res = 200
      /\ reqs[p].id = reqs[q].id
      /\ Supplied(reqs[p].body) \cap Supplied(reqs[q].body) = {} ) =>
      /\ reqs[p].id \in DOMAIN devices
      /\ \A f \in Supplied(reqs[p].body) :
           devices[reqs[p].id][f] = reqs[p].body[f]
      /\ \A f \in Supplied(reqs[q].body) :
           devices[reqs[q].id][f] = reqs[q].body[f]

\* an update of the status and an update of the location of the same device
\* were in flight together and both have been answered 200
C28_Witness ==
  /\ nreq = 2
  /\ \E p, q \in Procs :
       /\ p # q
       /\ Done(p, "update") /\ Done(q, "update")
       /\ reqs[p].res = 200 /\ reqs[q].res = 200
       /\ reqs[p].id = reqs[q].id
       /\ Supplied(reqs[p].body) = {"status"}
       /\ Supplied(reqs[q].body) = {"location"}

\* the step is taken by request p, and p is a request of one of ops
StepOf(p, ops) == reqs'[p] # reqs[p] /\ reqs'[p].op \in ops

\* the step changes no device but id, and of id only the assignment fields
OnlyAssignmentChanges(id) ==
  /\ DOMAIN devices' = DOMAIN devices
  /\ \A d \in DOMAIN devices :
       /\ d # id => devices'[d] = devices[d]
       /\ \A f \in BodyFields : devices'[d][f] = devices[d][f]

\* the step changes the assignment fields of no device
AssignmentKept ==
  /\ DOMAIN devices' = DOMAIN devices
  /\ \A d \in DOMAIN devices :
       /\ devices'[d].assigned_user_id = devices[d].assigned_user_id
       /\ devices'[d].assigned_at = devices[d].assigned_at

\* C29: every step of an assign or a checkin changes nothing of the devices
\* but assigned_user_id and assigned_at of the target device, leaves
\* device_files as it is, and an assign or checkin that ran alone and was
\* answered 200 has appended exactly one history entry; every step of an update leaves
\* assigned_user_id and assigned_at of every device as they are; every step
\* of an upload leaves every device as it is.
C29_FrameEffects ==
  /\ [](\A p \in Procs :
         ((Done(p, "assign") \/ Done(p, "checkin")) /\ reqs[p].res = 200) =>
           Len(HistoryOf(device_history, reqs[p].id)) = reqs[p].h0 + 1)
  /\ [][\A p \in Procs :
          /\ StepOf(p, {"assign", "checkin"}) =>
                /\ OnlyAssignmentChanges(reqs'[p].id)
                /\ device_files' = device_files
                /\ IsPrefix(device_history, device_history')
                /\ Len(device_history') <= Len(device_history) + 1
          /\ StepOf(p, {"update"}) => AssignmentKept
          /\ StepOf(p, {"addFile"}) => devices' = devices]_vars

\* a checkin of an assigned device that has a file was answered 200: the
\* device is assigned to nobody and its status is the one it had
C29_Witness ==
  /\ Done(1, "checkin") /\ reqs[1].res = 200
  /\ reqs[1].dev0[1].assigned_user_id # NullN
  /\ FilesOf(device_files, reqs[1].id) # <<>>
  /\ devices[reqs[1].id].assigned_user_id = NullN
  /\ devices[reqs[1].id].status = reqs[1].dev0[1].status

\* C30: when an upload has been answered, the uploads directory holds the
\* file it sent only if it was answered 201 and a row of device_files has
\* its storage path: an upload answered 404 because the device does not
\* exist, or 500 because the insert failed, leaves no file behind.
C30_NoOrphanBlob ==
  \A p \in Procs :
    (Done(p, "addFile") /\ reqs[p].path # <<>> /\ reqs[p].path \in uploads) =>
      /\ reqs[p].res = 201
      /\ \E i \in 1..Len(device_files) :
           device_files[i].storage_path = reqs[p].path

\* an upload with a file to a device that does not exist was answered 404
C30_Witness ==
  /\ Done(1, "addFile") /\ reqs[1].res = 404
  /\ reqs[1].file # <<>>
  /\ reqs[1].id \notin DOMAIN devices

====
